---- MODULE Spec2Model ----
(***************************************************************************)
(* The Netflix dashboard (src/app.py) and its helpers                      *)
(* (src/utils/helpers.py) as a state machine.                              *)
(*                                                                         *)
(* app.py is a Streamlit script: every user interaction re-runs it from    *)
(* the top.  A run is modelled as a program counter walking through the    *)
(* script's sections; the widget values persist between runs, and the      *)
(* result of load_data persists in the st.cache_data memo.                 *)
(*                                                                         *)
(* Values.  An optional cell is a sequence of length <= 1: NaN is <<>>,    *)
(* a present value x is <<x>>.  A text is a sequence of one-character      *)
(* strings, so that splitting, trimming and pattern search are computed    *)
(* and not assumed.  type and rating are only ever compared for equality   *)
(* by the code and are kept as atoms.                                      *)
(***************************************************************************)
EXTENDS Integers, Sequences, FiniteSets, TLC

VARIABLES
    file,             \* netflix_titles.csv on disk
    cache,            \* the st.cache_data memo of load_data
    nparse,           \* how many times pd.read_csv has been executed
    lastParsed,       \* the file as it was at the last read_csv (history)
    runs,             \* script runs started so far
    pc,               \* position of the current run in the script
    loadResult,       \* how the load_data() call of this run ended
    df,               \* the catalog of this run (result of load_data)
    ui,               \* widget values kept by Streamlit between runs
    content_type,     \* sidebar multiselect, as read by this run
    ratings,          \* sidebar multiselect, as read by this run
    year_range,       \* sidebar slider, as read by this run
    filtered_df,      \* the filtered view
    movies_df,        \* sub-slice of the view, type == 'Movie'
    tv_shows_df,      \* sub-slice of the view, type == 'TV Show'
    genre_counts,     \* frequency table of listed_in tokens
    director_counts,  \* frequency table of director tokens
    cast_counts,      \* frequency table of cast tokens
    country_counts,   \* frequency table of country tokens
    heatmap_pivot,    \* month x year table of the additions heatmap
    monthly_data,     \* additions per calendar month
    search_query,     \* detail tab text input, as read by this run
    selected_genre,   \* detail tab selectbox, as read by this run
    selected_country, \* detail tab selectbox, as read by this run
    detailed_df,      \* the detail view
    rendered,         \* elements (metrics, charts) this run has produced
    errors,           \* user-visible error messages of this run
    series,           \* argument of helpers.extract_top_items
    top_n,            \* argument of helpers.extract_top_items
    top_items,        \* result of helpers.extract_top_items
    df_clean          \* result of helpers.clean_netflix_data

vars == <<file, cache, nparse, lastParsed, runs, pc, loadResult, df, ui,
          content_type, ratings, year_range, filtered_df, movies_df,
          tv_shows_df, genre_counts, director_counts, cast_counts,
          country_counts, heatmap_pivot, monthly_data, search_query,
          selected_genre, selected_country, detailed_df, rendered, errors,
          series, top_n, top_items, df_clean>>

-----------------------------------------------------------------------------
(* Bounds of the model *)

MaxRows == 2          \* rows of a catalog drawn for the filter engine
MaxCells == 2         \* rows of a catalog drawn for the tallies
MaxTopN == 2          \* top_n given to extract_top_items
MaxRuns == 2          \* script runs of one session
MaxFileChanges == 1   \* modifications of the source file in one session
MaxDated == 2         \* rows of a catalog drawn for the dates and durations

-----------------------------------------------------------------------------
(* Optional values and small helpers *)

NaN == <<>>
Some(x) == <<x>>
IsNa(c) == c = <<>>
Val(c) == c[1]

Range(s) == {s[i] : i \in DOMAIN s}
Min(a, b) == IF a <= b THEN a ELSE b
Max(a, b) == IF a >= b THEN a ELSE b

\* seq[:n]  /  Series.head(n)
Head_n(s, n) == SubSeq(s, 1, Min(n, Len(s)))

\* the subsequence of s whose elements satisfy Keep, order preserved
RECURSIVE SelectRows(_, _)
SelectRows(s, keep) ==
    IF s = <<>> THEN <<>>
    ELSE (IF 1 \in keep THEN <<Head(s)>> ELSE <<>>)
         \o SelectRows(Tail(s), {i - 1 : i \in keep \ {1}})

-----------------------------------------------------------------------------
(* Text: python str methods and the re module, on sequences of characters *)

\* str.split(sep) for a one-character separator
RECURSIVE Split(_, _)
Split(s, sep) ==
    IF \A i \in 1..Len(s) : s[i] # sep THEN <<s>>
    ELSE LET k == CHOOSE i \in 1..Len(s) :
                      s[i] = sep /\ \A j \in 1..(i - 1) : s[j] # sep
         IN  <<SubSeq(s, 1, k - 1)>> \o Split(SubSeq(s, k + 1, Len(s)), sep)

\* str.strip(): leading and trailing blanks removed
RECURSIVE Strip(_)
Strip(s) ==
    IF s # <<>> /\ s[1] = " " THEN Strip(Tail(s))
    ELSE IF s # <<>> /\ s[Len(s)] = " " THEN Strip(SubSeq(s, 1, Len(s) - 1))
    ELSE s

\* sep in s
InStr(sep, s) == \E i \in 1..Len(s) : s[i] = sep

\* case folding of re.IGNORECASE
Lower(c) == CASE c = "A" -> "a" [] c = "B" -> "b" [] c = "D" -> "d"
              [] c = "U" -> "u" [] OTHER -> c

\* Plain substring containment, the reference the claims speak of.
IsSubstring(q, s, fold) ==
    \E i \in 1..(Len(s) - Len(q) + 1) :
        \A k \in 1..Len(q) :
            IF fold THEN Lower(q[k]) = Lower(s[i + k - 1])
                    ELSE q[k] = s[i + k - 1]

\* re.compile(pat) succeeds.  Of the characters used in this model only "."
\* and "(" are regex metacharacters; ")" is not among them, so every "(" opens
\* a group that is never closed and re.compile raises re.error.
RegexValid(pat) == \A k \in 1..Len(pat) : pat[k] # "("

\* re.search(pat, s) finds a match, for a valid pattern: "." matches any
\* character, every other character matches itself (folded under IGNORECASE).
RegexSearch(pat, s, fold) ==
    \E i \in 1..(Len(s) - Len(pat) + 1) :
        \A k \in 1..Len(pat) :
            \/ pat[k] = "."
            \/ IF fold THEN Lower(pat[k]) = Lower(s[i + k - 1])
                       ELSE pat[k] = s[i + k - 1]

\* One element of Series.str.contains(pat, case=..., na=False): regex=True is
\* the pandas default and none of the calls in app.py overrides it.
StrContains(cell, pat, fold) ==
    IF IsNa(cell) THEN FALSE ELSE RegexSearch(pat, Val(cell), fold)

-----------------------------------------------------------------------------
(* Numbers and dates read from text *)

DigitChars == <<"0", "1", "2", "3", "4", "5", "6", "7", "8", "9">>

IsDigit(c) == \E d \in DOMAIN DigitChars : DigitChars[d] = c
DigitValue(c) == (CHOOSE d \in DOMAIN DigitChars : DigitChars[d] = c) - 1

\* the number a non-empty run of decimal digits denotes
RECURSIVE ParseInt(_)
ParseInt(s) ==
    IF Len(s) = 1 THEN DigitValue(s[1])
    ELSE 10 * ParseInt(SubSeq(s, 1, Len(s) - 1)) + DigitValue(s[Len(s)])

\* the decimal digits of a natural number, as read_csv finds them in the file
RECURSIVE Digits(_)
Digits(n) ==
    IF n < 10 THEN <<DigitChars[n + 1]>>
    ELSE Digits(n \div 10) \o <<DigitChars[(n % 10) + 1]>>

\* One element of pd.to_numeric(column, errors='coerce'): a text of digits
\* becomes its number, any other text of this model becomes NaN.
ToNumeric(cell) ==
    IF IsNa(cell) THEN NaN
    ELSE IF Val(cell) # <<>> /\ \A k \in DOMAIN Val(cell) : IsDigit(Val(cell)[k])
         THEN Some(ParseInt(Val(cell)))
         ELSE NaN

\* the month names the date parser knows
MonthNames == <<"January", "February", "March", "April", "May", "June",
                "July", "August", "September", "October", "November",
                "December">>

IsLeap(y) == (y % 4 = 0 /\ y % 100 # 0) \/ y % 400 = 0

DaysIn(m, y) ==
    IF m = 2 THEN (IF IsLeap(y) THEN 29 ELSE 28)
    ELSE IF m \in {4, 6, 9, 11} THEN 30 ELSE 31

\* One element of pd.to_datetime(column, errors='coerce').  A date_added text
\* is "<Month> <day>, <year>"; the model holds it split into these three
\* words.  A text that names no date (unknown month, day or year not a
\* number, day not in the month) becomes NaT.
ToDatetime(cell) ==
    IF IsNa(cell) THEN NaN
    ELSE LET t == Val(cell)
             d == ToNumeric(Some(t.day))
             y == ToNumeric(Some(t.year))
         IN  IF /\ \E m \in DOMAIN MonthNames : MonthNames[m] = t.month
                /\ ~IsNa(d) /\ ~IsNa(y)
             THEN LET m == CHOOSE k \in DOMAIN MonthNames :
                               MonthNames[k] = t.month
                  IN  IF Val(d) >= 1 /\ Val(d) <= DaysIn(m, Val(y))
                      THEN Some([year |-> Val(y), month |-> m, day |-> Val(d)])
                      ELSE NaN
             ELSE NaN

\* Series.dt.month with the months counted from 0
MonthOfZeroBased(date) == IF IsNa(date) THEN NaN ELSE Some(Val(date).month - 1)

\* one element of Series.dt.year and of Series.dt.month: NaN for NaT
YearOf(date) == IF IsNa(date) THEN NaN ELSE Some(Val(date).year)
MonthOf(date) == IF IsNa(date) THEN NaN ELSE Some(Val(date).month)

\* re.search('(\d+)', text), the group: the first run of digits anywhere in
\* the text, or nothing
FirstDigits(text) ==
    IF \A k \in DOMAIN text : ~IsDigit(text[k]) THEN NaN
    ELSE LET i == CHOOSE k \in DOMAIN text :
                      IsDigit(text[k]) /\ \A j \in 1..(k - 1) : ~IsDigit(text[j])
             j == CHOOSE k \in i..Len(text) :
                      /\ \A q \in i..k : IsDigit(text[q])
                      /\ (k = Len(text) \/ ~IsDigit(text[k + 1]))
         IN  Some(SubSeq(text, i, j))

\* One element of Series.str.extract('(\d+)').astype(float)
ExtractNumber(cell) ==
    IF IsNa(cell) THEN NaN ELSE ToNumeric(FirstDigits(Val(cell)))

-----------------------------------------------------------------------------
(* Data frames *)

\* Texts used in cells
Unknown == <<"U", "n", "k", "n", "o", "w", "n">>
NotRated == "Not Rated"
All == <<"A", "l", "l">>            \* the selectbox sentinel "All"

\* The columns of netflix_titles.csv that the model carries
CsvColumns == {"type", "title", "director", "cast", "country", "date_added",
               "release_year", "rating", "duration", "listed_in"}

\* the columns lines 46-47 add
DerivedColumns == {"year_added", "month_added"}

\* A frame is its rows (in index order, each carrying its index label idx)
\* and its set of column labels.  pd.DataFrame() has neither.
EmptyFrame == [rows |-> <<>>, cols |-> {}]

\* DataFrame.empty: some axis has length 0
IsEmpty(frame) == frame.rows = <<>> \/ frame.cols = {}

\* frame[mask]: boolean indexing, which always builds a new frame
\* (mask is the set of the positions where the boolean mask is True)
Where(frame, mask) ==
    [rows |-> SelectRows(frame.rows, mask), cols |-> frame.cols]

\* frame[name] = values, applied to the frame object itself
SetColumn(frame, name, values) ==
    [rows |-> [i \in DOMAIN frame.rows |->
                   (name :> values[i]) @@ frame.rows[i]],
     cols |-> frame.cols \cup {name}]

\* the index labels of a frame
Index(frame) == {frame.rows[i].idx : i \in DOMAIN frame.rows}

\* Series.unique() of a column
Unique(frame, col) == {frame.rows[i][col] : i \in DOMAIN frame.rows}

\* Series.fillna(value)
FillNa(cell, value) == IF IsNa(cell) THEN Some(value) ELSE cell

-----------------------------------------------------------------------------
(* load_data, app.py lines 40-58 *)

\* The body of the try block for a file that pd.read_csv can read: the
\* cleaning of lines 48-53.  Row i gets the index label i.
CleanRows(raw) ==
    [i \in DOMAIN raw |->
        LET date_added == ToDatetime(raw[i].date_added)
        IN  [idx          |-> i,
             type         |-> raw[i].type,
             title        |-> raw[i].title,
             director     |-> raw[i].director,
             cast         |-> raw[i].cast,
             country      |-> FillNa(raw[i].country, Unknown),
             date_added   |-> date_added,
             year_added   |-> YearOf(date_added),
             month_added  |-> MonthOf(date_added),
             release_year |-> ToNumeric(raw[i].release_year),
             rating       |-> Val(FillNa(raw[i].rating, NotRated)),
             duration     |-> FillNa(raw[i].duration, Unknown),
             listed_in    |-> raw[i].listed_in]]

ReadCsv(f) ==
    [rows |-> CleanRows(f.rows), cols |-> CsvColumns \cup DerivedColumns]

\* helpers.py lines 5-27: clean_netflix_data(df) on the frame pd.read_csv
\* gives; it works on a copy and also fills director and cast
clean_netflix_data(raw) ==
    [rows |-> [i \in DOMAIN raw |->
                  [CleanRows(raw)[i] EXCEPT
                      !.director = FillNa(raw[i].director, Unknown),
                      !.cast = FillNa(raw[i].cast, Unknown)]],
     cols |-> CsvColumns \cup DerivedColumns]

FileNotFoundMsg == "netflix_titles.csv file not found"

\* What one execution of the function body yields:
\*   a missing file raises FileNotFoundError, which line 56 catches;
\*   any other failure of pd.read_csv (PermissionError, IsADirectoryError,
\*   EmptyDataError, UnicodeDecodeError, ParserError) is caught by nothing.
load_data(f) ==
    CASE f.state = "absent" ->
            [outcome |-> "returned", value |-> EmptyFrame,
             msgs |-> {FileNotFoundMsg}]
      [] f.state = "unreadable" ->
            [outcome |-> "raised", value |-> EmptyFrame, msgs |-> {}]
      [] OTHER ->
            [outcome |-> "returned", value |-> ReadCsv(f), msgs |-> {}]

-----------------------------------------------------------------------------
(* The filter engine, app.py lines 96-102 *)

\* Series >= v and Series <= v: a comparison with NaN is False
GE(cell, v) == ~IsNa(cell) /\ Val(cell) >= v
LE(cell, v) == ~IsNa(cell) /\ Val(cell) <= v

\* the mask with the upper bound of the year range excluded
FilterMaskUpperExclusive(r, types, rts, yr) ==
    /\ r.type \in types
    /\ r.rating \in rts
    /\ GE(r.release_year, yr[1])
    /\ ~IsNa(r.release_year) /\ Val(r.release_year) < yr[2]

FilterMask(r, types, rts, yr) ==
    /\ r.type \in types
    /\ r.rating \in rts
    /\ GE(r.release_year, yr[1])
    /\ LE(r.release_year, yr[2])

-----------------------------------------------------------------------------
(* The tallies: helpers.extract_top_items and the inline loops of app.py *)

\* The list one cell contributes in the inline loops (lines 235, 302, 321,
\* 343): [g.strip() for g in cell.split(',')]
CellTokens(text) ==
    LET parts == Split(text, ",") IN [k \in DOMAIN parts |-> Strip(parts[k])]

\* helpers.py lines 35-38 with the strip of line 36 left out
HelperCellTokensUnstripped(text, sep) ==
    IF InStr(sep, text) THEN Split(text, sep) ELSE <<Strip(text)>>

\* helpers.py lines 35-38, for one cell of series.dropna()
HelperCellTokens(text, sep) ==
    IF InStr(sep, text)
    THEN LET parts == Split(text, sep) IN [k \in DOMAIN parts |-> Strip(parts[k])]
    ELSE <<Strip(text)>>

\* all_items after the loop over the cells (a sequence of optional texts);
\* Series.dropna() / the loop over .dropna() skips the NaN cells
RECURSIVE Flatten(_)
Flatten(lists) ==
    IF lists = <<>> THEN <<>> ELSE Head(lists) \o Flatten(Tail(lists))


\* number of occurrences of t in a list
Count(items, t) == Cardinality({i \in DOMAIN items : items[i] = t})

\* position of the first occurrence of t in a list
FirstAt(items, t) == CHOOSE i \in DOMAIN items :
                         items[i] = t /\ \A j \in 1..(i - 1) : items[j] # t

\* pd.Series(items).value_counts(): one entry <<token, count>> per distinct
\* token, by count descending.  value_counts sorts with
\* Series.sort_values(ascending=False), whose default kind is 'quicksort',
\* which is not a stable sort: the order among equal counts is whatever the
\* numpy build produces, so every count-descending order is a possible result.
ValueCounts(items) ==
    LET toks == Range(items)
        n    == Cardinality(toks)
    IN  { [i \in 1..n |-> <<f[i], Count(items, f[i])>>] :
            f \in { g \in [1..n -> toks] :
                      /\ \A i, j \in 1..n : i # j => g[i] # g[j]
                      /\ \A i, j \in 1..n :
                            i < j => Count(items, g[i]) >= Count(items, g[j]) } }

\* a column of a frame, as the sequence of its cells
Column(frame, col) == [i \in DOMAIN frame.rows |-> frame.rows[i][col]]

\* lines 233-235, 300-302, 319-321
InlineItems(frame, col) ==
    LET cells == Column(frame, col)
    IN  Flatten([i \in DOMAIN cells |->
                    IF IsNa(cells[i]) THEN <<>> ELSE CellTokens(Val(cells[i]))])

\* lines 340-343: the cells equal to 'Unknown' are skipped
CountryCellTokens(text) == IF text = Unknown THEN <<>> ELSE CellTokens(text)
CountryItems(frame) ==
    LET cells == Column(frame, "country")
    IN  Flatten([i \in DOMAIN cells |->
                    IF IsNa(cells[i]) THEN <<>>
                    ELSE CountryCellTokens(Val(cells[i]))])

\* helpers.py lines 33-38
HelperItems(cells, sep) ==
    Flatten([i \in DOMAIN cells |->
                IF IsNa(cells[i]) THEN <<>>
                ELSE HelperCellTokens(Val(cells[i]), sep)])

\* the tokens of a frequency table
Tokens(table) == {table[i][1] : i \in DOMAIN table}

TopGenres == 15       \* line 237
TopPeople == 10       \* lines 304, 323
TopCountries == 20    \* line 345
TopCountriesRated == 15   \* line 390
TopCountriesTyped == 10   \* line 418

-----------------------------------------------------------------------------
(* The widgets *)

DefaultYears == <<2010, 2021>>     \* line 93
MaxOptions == 50                   \* lines 539, 542

\* what Streamlit keeps of the widgets between the runs of a session; NaN
\* stands for a widget the user has not touched, which yields its default
DefaultUi == [types |-> NaN, ratings |-> NaN, years |-> NaN,
              query |-> <<>>, genre |-> Some(All), country |-> Some(All)]

\* Series.min() / Series.max() of release_year skip NaN
Years(frame) == {Val(frame.rows[i].release_year) :
                    i \in {j \in DOMAIN frame.rows :
                             ~IsNa(frame.rows[j].release_year)}}
MinOf(S) == CHOOSE x \in S : \A y \in S : x <= y
MaxOf(S) == CHOOSE x \in S : \A y \in S : x >= y

\* st.slider widens [min_value, max_value] so that it holds the default value
SliderMin(frame) == Min(DefaultYears[1], MinOf(Years(frame)))
SliderMax(frame) == Max(DefaultYears[2], MaxOf(Years(frame)))

\* a column read with no text in it is a float64 column of NaN, on which the
\* .str accessor raises AttributeError; otherwise it is an object column
ObjectColumn(frame, col) ==
    \E i \in DOMAIN frame.rows : ~IsNa(frame.rows[i][col])

\* df[col].str.split(',').explode().str.strip(): one optional token per
\* segment, NaN for a NaN cell
OptionItems(frame, col) ==
    Flatten([i \in DOMAIN frame.rows |->
        IF IsNa(frame.rows[i][col]) THEN <<NaN>>
        ELSE LET t == CellTokens(Val(frame.rows[i][col]))
             IN  [k \in DOMAIN t |-> Some(t[k])]])

\* list(<...>.unique())[:50]: the first 50 distinct values in encounter order
FirstDistinct(items, n) ==
    {t \in Range(items) :
        Cardinality({u \in Range(items) :
                        FirstAt(items, u) <= FirstAt(items, t)}) <= n}

\* the options of the two selectboxes, lines 539 and 542
SelectOptions(frame, col) ==
    {Some(All)} \cup FirstDistinct(OptionItems(frame, col), MaxOptions)

-----------------------------------------------------------------------------
(* Inputs of the session *)

\* A line of the file with the release year ye written in digits, and with
\* the date_added and duration fields left empty
Row(ty, ti, di, ca, co, ye, ra, li) ==
    [type |-> ty, title |-> ti, director |-> di, cast |-> ca, country |-> co,
     date_added |-> NaN,
     release_year |-> IF IsNa(ye) THEN NaN ELSE Some(Digits(Val(ye))),
     rating |-> ra, duration |-> NaN, listed_in |-> li]

\* the text "<month> <day>, <year>" of a date_added field
DateText(month, day, year) ==
    Some([month |-> month, day |-> Digits(day), year |-> Digits(year)])

\* the same line with a date_added and a duration text
Dated(row, da, du) == [row EXCEPT !.date_added = da, !.duration = du]

Min90 == <<"9", "0", " ", "m", "i", "n">>
Seasons3 == <<"3", " ", "S", "e", "a", "s", "o", "n", "s">>

CatalogA ==
    << Dated(Row("Movie", Some(<<"A", "b">>), NaN, Some(<<"a", ",", " ", "B">>),
                 NaN, Some(2015), Some("PG"),
                 Some(<<"d", ".", ",", " ", "a">>)),
             DateText("September", 25, 2021), Some(Min90)),
       Dated(Row("TV Show", Some(<<"b", ".">>), Some(<<"d">>), NaN,
                 Some(<<"u", ",", "d">>), Some(2021), NaN,
                 Some(<<"d", ",", ",", "a">>)),
             DateText("March", 1, 2020), Some(Seasons3)) >>

CatalogB ==
    << Row("Movie", Some(<<"a">>), Some(<<"b">>), Some(<<"b">>),
           Some(<<"u">>), Some(2005), Some("PG"), Some(<<"a">>)),
       Row("Movie", Some(<<"b">>), NaN, NaN,
           Some(<<"d">>), NaN, Some("PG"), NaN) >>

CatalogC ==
    << Row("Movie", Some(<<"a">>), NaN, NaN, NaN, NaN, NaN, Some(<<"a">>)) >>

\* the contents the file takes in a session; <<>> is a header line alone
FileContents == {CatalogA, CatalogB, CatalogC, <<>>}

\* the file: missing, present but not readable by pd.read_csv, or readable;
\* version counts its modifications, as a modification time would
Files(v) == {[state |-> "absent", rows |-> <<>>, version |-> v],
             [state |-> "unreadable", rows |-> <<>>, version |-> v]}
            \cup {[state |-> "ok", rows |-> c, version |-> v] : c \in FileContents}

YearPicks == {2005, 2015, 2021}
Queries == {<<>>, <<"a">>, <<"B">>, <<"u">>, <<".">>, <<"(">>}

-----------------------------------------------------------------------------
(* The session: the file, the memo, and the runs of the script *)

\* how the load_data() call of a run ended: whether it returned or raised,
\* whether the value came from the memo or from executing the body, the state
\* of the file at the call, and whether the file then differed from the file
\* the body last read
NoLoad == [outcome |-> "none", from |-> "none", state |-> "none",
           changed |-> FALSE]
NoCache == [valid |-> FALSE, value |-> EmptyFrame, msgs |-> {}]

envVars == <<file, cache, nparse, lastParsed, runs, ui>>
helperVars == <<series, top_n, top_items, df_clean>>
sidebarVars == <<content_type, ratings, year_range>>
detailVars == <<search_query, selected_genre, selected_country>>
trendVars == <<heatmap_pivot, monthly_data>>
tallyVars == <<genre_counts, director_counts, cast_counts, country_counts,
               heatmap_pivot, monthly_data>>

\* a pivot table with no row and no column
NoPivot == [index |-> {}, columns |-> {}, cells |-> [p \in {} \X {} |-> NaN]]
sliceVars == <<movies_df, tv_shows_df>>

\* the variables of a run before the script has assigned them
RunStart ==
    /\ loadResult = NoLoad
    /\ df = EmptyFrame
    /\ content_type = {} /\ ratings = {} /\ year_range = <<0, 0>>
    /\ filtered_df = EmptyFrame
    /\ movies_df = EmptyFrame /\ tv_shows_df = EmptyFrame
    /\ genre_counts = <<>> /\ director_counts = <<>>
    /\ cast_counts = <<>> /\ country_counts = <<>>
    /\ heatmap_pivot = NoPivot /\ monthly_data = <<>>
    /\ search_query = <<>>
    /\ selected_genre = Some(All) /\ selected_country = Some(All)
    /\ detailed_df = EmptyFrame
    /\ rendered = {} /\ errors = {}

\* helpers.extract_top_items is called by nothing in app.py
HelperIdle == series = <<>> /\ top_n = 0 /\ top_items = NaN /\ df_clean = NaN

Init ==
    /\ file \in Files(0)
    /\ cache = NoCache
    /\ nparse = 0
    /\ lastParsed = NaN
    /\ runs = 0
    /\ ui = DefaultUi
    /\ pc = "idle"
    /\ RunStart
    /\ HelperIdle

Ended == {"idle", "done", "stopped", "crashed"}

\* an uncaught exception: Streamlit shows it and the run is over
Raise(what) ==
    /\ pc' = "crashed"
    /\ errors' = errors \cup {what}

\* the run goes on to the next section, having produced the elements els
Goto(next, els) ==
    /\ pc' = next
    /\ rendered' = rendered \cup els
    /\ errors' = errors

\* the file is changed on disk (between two runs)
ModifyFile ==
    /\ pc \in Ended
    /\ file.version < MaxFileChanges
    /\ \E f \in Files(file.version + 1) :
          /\ <<f.state, f.rows>> # <<file.state, file.rows>>
          /\ file' = f
    /\ UNCHANGED <<cache, nparse, lastParsed, runs, ui, pc, loadResult, df,
                   sidebarVars, filtered_df, sliceVars, tallyVars, detailVars,
                   detailed_df, rendered, errors, helperVars>>

\* the values a user can give the widgets that the last run displayed
UiChoices ==
    LET side == "sidebar" \in rendered
        tab5 == "detail_widgets" \in rendered
    IN  {[ui EXCEPT !.types = Some(t)] :
            t \in IF side THEN SUBSET Unique(df, "type") ELSE {}}
   \cup {[ui EXCEPT !.ratings = Some(r)] :
            r \in IF side THEN SUBSET Unique(df, "rating") ELSE {}}
   \cup {[ui EXCEPT !.years = Some(y)] :
            y \in IF side
                  THEN {p \in YearPicks \X YearPicks :
                          /\ SliderMin(df) <= p[1] /\ p[1] <= p[2]
                          /\ p[2] <= SliderMax(df)}
                  ELSE {}}
   \cup {[ui EXCEPT !.query = q] : q \in IF tab5 THEN Queries ELSE {}}
   \cup {[ui EXCEPT !.genre = g] :
            g \in IF tab5 THEN SelectOptions(df, "listed_in") ELSE {}}
   \cup {[ui EXCEPT !.country = c] :
            c \in IF tab5 THEN SelectOptions(df, "country") ELSE {}}

\* a run of the script starts: the page is opened or reloaded (the widgets
\* keep their values), or the user changes one widget
StartRun ==
    /\ pc \in Ended
    /\ runs < MaxRuns
    /\ runs' = runs + 1
    /\ ui' \in {ui} \cup UiChoices
    /\ pc' = "load"
    /\ loadResult' = NoLoad
    /\ df' = EmptyFrame
    /\ content_type' = {} /\ ratings' = {} /\ year_range' = <<0, 0>>
    /\ filtered_df' = EmptyFrame
    /\ movies_df' = EmptyFrame /\ tv_shows_df' = EmptyFrame
    /\ genre_counts' = <<>> /\ director_counts' = <<>>
    /\ cast_counts' = <<>> /\ country_counts' = <<>>
    /\ heatmap_pivot' = NoPivot /\ monthly_data' = <<>>
    /\ search_query' = <<>>
    /\ selected_genre' = Some(All) /\ selected_country' = Some(All)
    /\ detailed_df' = EmptyFrame
    /\ rendered' = {} /\ errors' = {}
    /\ UNCHANGED <<file, cache, nparse, lastParsed, helperVars>>

\* line 61: df = load_data(), through the st.cache_data memo (line 40).  The
\* memo is keyed by the function and its arguments, and load_data has none:
\* once a result is stored it is returned, and its st.error replayed, whatever
\* has become of the file.  A call that raises stores nothing.
LoadData ==
    /\ pc = "load"
    /\ IF cache.valid
       THEN /\ df' = cache.value
            /\ loadResult' = [outcome |-> "returned", from |-> "cache",
                              state |-> file.state,
                              changed |-> lastParsed # Some(file)]
            /\ pc' = "check"
            /\ errors' = errors \cup cache.msgs
            /\ UNCHANGED <<cache, nparse, lastParsed>>
       ELSE LET r == load_data(file) IN
            /\ nparse' = nparse + 1
            /\ lastParsed' = Some(file)
            /\ loadResult' = [outcome |-> r.outcome, from |-> "file",
                              state |-> file.state,
                              changed |-> lastParsed # Some(file)]
            /\ IF r.outcome = "returned"
               THEN /\ cache' = [valid |-> TRUE, value |-> r.value,
                                 msgs |-> r.msgs]
                    /\ df' = r.value
                    /\ pc' = "check"
                    /\ errors' = errors \cup r.msgs
               ELSE /\ Raise("read_csv")
                    /\ UNCHANGED <<cache, df>>
    /\ UNCHANGED <<rendered, file, runs, ui, sidebarVars, filtered_df, sliceVars,
                   tallyVars, detailVars, detailed_df, helperVars>>

\* lines 63-64: if df.empty: st.stop()
CheckEmpty ==
    /\ pc = "check"
    /\ pc' = IF IsEmpty(df) THEN "stopped" ELSE "sidebar"
    /\ UNCHANGED <<envVars, loadResult, df, sidebarVars, filtered_df,
                   sliceVars, tallyVars, detailVars, detailed_df, rendered,
                   errors, helperVars>>

\* lines 66-94: the three sidebar widgets.  int(df['release_year'].min())
\* raises ValueError when no row has a release year (the minimum is NaN).
Sidebar ==
    /\ pc = "sidebar"
    /\ IF Years(df) = {}
       THEN /\ Raise("int(NaN)")
            /\ UNCHANGED <<sidebarVars, rendered>>
       ELSE /\ content_type' = IF IsNa(ui.types) THEN Unique(df, "type")
                                                 ELSE Val(ui.types)
            /\ ratings' = IF IsNa(ui.ratings) THEN Unique(df, "rating")
                                              ELSE Val(ui.ratings)
            /\ year_range' = IF IsNa(ui.years) THEN DefaultYears
                                               ELSE Val(ui.years)
            /\ Goto("filter", {"sidebar"})
    /\ UNCHANGED <<envVars, loadResult, df, filtered_df, sliceVars, tallyVars,
                   detailVars, detailed_df, helperVars>>

\* lines 96-102
ApplyFilters ==
    /\ pc = "filter"
    /\ filtered_df' = Where(df, {i \in DOMAIN df.rows :
           FilterMask(df.rows[i], content_type, ratings, year_range)})
    /\ Goto("metrics", {})
    /\ UNCHANGED <<envVars, loadResult, df, sidebarVars, sliceVars, tallyVars,
                   detailVars, detailed_df, helperVars>>

\* lines 104-115: the four metrics; max() of no rows is NaN, shown as "N/A"
Metrics ==
    /\ pc = "metrics"
    /\ Goto("overview", {"metrics"})
    /\ UNCHANGED <<envVars, loadResult, df, sidebarVars, filtered_df,
                   sliceVars, tallyVars, detailVars, detailed_df, helperVars>>

\* lines 126-155: the type pie and the rating bar chart
Overview ==
    /\ pc = "overview"
    /\ Goto("decades", {"fig_type", "fig_rating"})
    /\ UNCHANGED <<envVars, loadResult, df, sidebarVars, filtered_df,
                   sliceVars, tallyVars, detailVars, detailed_df, helperVars>>

\* (release_year // 10) * 10
DecadeOf(r) ==
    IF IsNa(r.release_year) THEN NaN
    ELSE Some((Val(r.release_year) \div 10) * 10)

\* the column (frame['release_year'] // 10) * 10
DecadeColumn(frame) == [i \in DOMAIN frame.rows |-> DecadeOf(frame.rows[i])]

\* the catalog after line 161 if the view shared its data with the catalog
CatalogAfterDecadeAliased(catalog, view) ==
    SetColumn(catalog, "decade", DecadeColumn(catalog))

\* What the assignment of line 161 does to the catalog.  filtered_df was built
\* by boolean indexing, which copies: the new column lands on that copy alone.
CatalogAfterDecade(catalog, view) == catalog

\* lines 157-187: filtered_df['decade'] = ... is an assignment to the view
\* object itself, which every later section reads
Decades ==
    /\ pc = "decades"
    /\ filtered_df' = SetColumn(filtered_df, "decade",
                                DecadeColumn(filtered_df))
    /\ df' = CatalogAfterDecade(df, filtered_df)
    /\ Goto("duration", {"fig_decade", "fig_decade_type"})
    /\ UNCHANGED <<envVars, loadResult, sidebarVars, sliceVars, tallyVars,
                   detailVars, detailed_df, helperVars>>

IsMovie(frame) == {i \in DOMAIN frame.rows : frame.rows[i].type = "Movie"}
IsTvShow(frame) ==
    {i \in DOMAIN frame.rows : frame.rows[i].type = "TV Show"}

\* the column frame['duration'].str.extract('(\d+)').astype(float)
ParsedDuration(frame) ==
    [i \in DOMAIN frame.rows |-> ExtractNumber(frame.rows[i].duration)]

\* lines 189-227: the two sub-slices are copies (.copy()), each given the
\* number parsed from its duration texts; each chart is skipped when its
\* slice is empty
Duration ==
    /\ pc = "duration"
    /\ LET movies == Where(filtered_df, IsMovie(filtered_df))
           shows == Where(filtered_df, IsTvShow(filtered_df))
       IN  /\ movies_df' = SetColumn(movies, "duration_min",
                                     ParsedDuration(movies))
           /\ tv_shows_df' = SetColumn(shows, "seasons",
                                       ParsedDuration(shows))
    /\ Goto("genres",
            (IF IsMovie(filtered_df) # {}
                THEN {"fig_movie_duration"} ELSE {})
            \cup (IF IsTvShow(filtered_df) # {}
                THEN {"fig_tv_seasons"} ELSE {}))
    /\ UNCHANGED <<envVars, loadResult, df, sidebarVars, filtered_df,
                   tallyVars, detailVars, detailed_df, helperVars>>

\* lines 229-261
Genres ==
    /\ pc = "genres"
    /\ \E vc \in ValueCounts(InlineItems(filtered_df, "listed_in")) :
          genre_counts' = Head_n(vc, TopGenres)
    /\ Goto("genre_trends", {"fig_genres", "fig_genre_treemap"})
    /\ UNCHANGED <<envVars, loadResult, df, sidebarVars, filtered_df,
                   sliceVars, director_counts, cast_counts, country_counts,
                   trendVars, detailVars, detailed_df, helperVars>>

TrendGenres == 8     \* line 272

\* lines 263-293: the chart is skipped when no row carries a top genre
GenreTrends ==
    /\ pc = "genre_trends"
    /\ Goto("people",
            IF \E i \in DOMAIN filtered_df.rows :
                  /\ ~IsNa(filtered_df.rows[i].listed_in)
                  /\ Range(CellTokens(Val(filtered_df.rows[i].listed_in)))
                        \cap Tokens(Head_n(genre_counts, TrendGenres)) # {}
            THEN {"fig_genre_trend"} ELSE {})
    /\ UNCHANGED <<envVars, loadResult, df, sidebarVars, filtered_df,
                   sliceVars, tallyVars, detailVars, detailed_df, helperVars>>

\* lines 295-334
People ==
    /\ pc = "people"
    /\ \E vc \in ValueCounts(InlineItems(filtered_df, "director")) :
          director_counts' = Head_n(vc, TopPeople)
    /\ \E vc \in ValueCounts(InlineItems(filtered_df, "cast")) :
          cast_counts' = Head_n(vc, TopPeople)
    /\ Goto("countries", {"fig_directors", "fig_cast"})
    /\ UNCHANGED <<envVars, loadResult, df, sidebarVars, filtered_df,
                   sliceVars, genre_counts, country_counts, trendVars,
                   detailVars, detailed_df, helperVars>>

\* lines 336-383: the choropleth is inside try/except
Countries ==
    /\ pc = "countries"
    /\ \E vc \in ValueCounts(CountryItems(filtered_df)) :
          country_counts' = Head_n(vc, TopCountries)
    /\ Goto("country_rating", {"fig_countries", "fig_world"})
    /\ UNCHANGED <<envVars, loadResult, df, sidebarVars, filtered_df,
                   sliceVars, genre_counts, director_counts, cast_counts,
                   trendVars, detailVars, detailed_df, helperVars>>

\* the patterns of a section's str.contains calls all compile
AllValid(table) == \A t \in Tokens(table) : RegexValid(t)

\* lines 385-414: one str.contains(country) per top country; the bubble
\* chart is skipped when there is nothing to plot
CountryRating ==
    /\ pc = "country_rating"
    /\ IF ~AllValid(Head_n(country_counts, TopCountriesRated))
       THEN /\ Raise("re.error")
            /\ rendered' = rendered
       ELSE Goto("country_type",
                 IF country_counts # <<>> THEN {"fig_bubble"} ELSE {})
    /\ UNCHANGED <<envVars, loadResult, df, sidebarVars, filtered_df,
                   sliceVars, tallyVars, detailVars, detailed_df, helperVars>>

\* lines 416-439.  With no top country, country_type_data is [] and
\* pd.DataFrame([]) has no 'country' column: melt(id_vars=['country'])
\* raises KeyError.
CountryType ==
    /\ pc = "country_type"
    /\ IF Head_n(country_counts, TopCountriesTyped) = <<>>
       THEN /\ Raise("KeyError: country")
            /\ rendered' = rendered
       ELSE Goto("trends", {"fig_country_type"})
    /\ UNCHANGED <<envVars, loadResult, df, sidebarVars, filtered_df,
                   sliceVars, tallyVars, detailVars, detailed_df, helperVars>>

\* the rows groupby(['year_added', 'month_added']) puts in a group: a row
\* with a NaN key is in none
InGroup(frame) ==
    {i \in DOMAIN frame.rows : /\ ~IsNa(frame.rows[i].year_added)
                               /\ ~IsNa(frame.rows[i].month_added)}

GroupKey(r) == <<Val(r.year_added), Val(r.month_added)>>

\* line 479: groupby([...]).size(), one entry per (year, month) that occurs
GroupSize(frame) ==
    [g \in {GroupKey(frame.rows[i]) : i \in InGroup(frame)} |->
        Cardinality({i \in InGroup(frame) : GroupKey(frame.rows[i]) = g})]

\* line 480: pivot(index='month_added', columns='year_added',
\* values='count'); a (month, year) with no entry is a NaN cell
Pivot(data) ==
    LET months == {g[2] : g \in DOMAIN data}
        years == {g[1] : g \in DOMAIN data}
    IN  [index |-> months, columns |-> years,
         cells |-> [p \in months \X years |->
                       IF <<p[2], p[1]>> \in DOMAIN data
                       THEN Some(data[<<p[2], p[1]>>]) ELSE NaN]]

\* fillna left out: the cell stays as pivot made it
FillZeroMissing(cell) == cell

\* line 480: one cell of .fillna(0)
FillZero(cell) == FillNa(cell, 0)

PivotFilled(data) ==
    LET pv == Pivot(data)
    IN  [pv EXCEPT !.cells = [p \in DOMAIN pv.cells |-> FillZero(pv.cells[p])]]

\* line 494: filtered_df['month_added'].value_counts(), NaN dropped
MonthlyAdded(frame) ==
    LET dated == {i \in DOMAIN frame.rows : ~IsNa(frame.rows[i].month_added)}
    IN  [m \in {Val(frame.rows[i].month_added) : i \in dated} |->
            Cardinality({i \in dated : Val(frame.rows[i].month_added) = m})]

\* Series.get(key, default)
Get(counts, key, default) ==
    IF key \in DOMAIN counts THEN counts[key] ELSE default

\* lines 441-527: the release trend, and the tables and charts of the
\* date_added columns (which every loaded frame has)
Trends ==
    /\ pc = "trends"
    /\ heatmap_pivot' = PivotFilled(GroupSize(filtered_df))
    /\ monthly_data' = [i \in 1..12 |-> Get(MonthlyAdded(filtered_df), i, 0)]
    /\ Goto("detail_widgets",
            {"fig_yearly", "fig_added", "fig_heatmap", "fig_monthly",
             "fig_polar"})
    /\ UNCHANGED <<envVars, loadResult, df, sidebarVars, filtered_df,
                   sliceVars, genre_counts, director_counts, cast_counts,
                   country_counts, detailVars, detailed_df, helperVars>>

\* lines 529-542: the text input and the two selectboxes.  The genre options
\* are computed with df['listed_in'].str, which needs an object column.
DetailWidgets ==
    /\ pc = "detail_widgets"
    /\ IF ~ObjectColumn(df, "listed_in")
       THEN /\ Raise("AttributeError: .str")
            /\ UNCHANGED <<detailVars, rendered>>
       ELSE /\ search_query' = ui.query
            /\ selected_genre' = ui.genre
            /\ selected_country' = ui.country
            /\ Goto("detail_search", {"detail_widgets"})
    /\ UNCHANGED <<envVars, loadResult, df, sidebarVars, filtered_df,
                   sliceVars, tallyVars, detailed_df, helperVars>>

\* Some call of lines 546-557 raises: .str on a column without text
\* (AttributeError), a pattern that does not compile (re.error), or the NaN
\* option as pattern (TypeError).  The three str.contains of lines 548-550 are
\* operands of |, all of them evaluated.
SearchRaises(catalog, q, g, c) ==
    \/ /\ q # <<>>
       /\ \/ ~ObjectColumn(catalog, "title")
          \/ ~ObjectColumn(catalog, "director")
          \/ ~ObjectColumn(catalog, "cast")
          \/ ~RegexValid(q)
    \/ /\ g # Some(All)
       /\ (IsNa(g) \/ ~RegexValid(Val(g)))
    \/ /\ c # Some(All)
       /\ (IsNa(c) \/ ~RegexValid(Val(c)))

\* the rows lines 546-557 keep, when no call raises
SearchMask(r, q, g, c) ==
    /\ \/ q = <<>>
       \/ StrContains(r.title, q, TRUE)
       \/ StrContains(r.director, q, TRUE)
       \/ StrContains(r.cast, q, TRUE)
    /\ (g = Some(All) \/ StrContains(r.listed_in, Val(g), FALSE))
    /\ (c = Some(All) \/ StrContains(r.country, Val(c), FALSE))

\* lines 544-557: detailed_df = filtered_df.copy(), then the three filters
DetailSearch ==
    /\ pc = "detail_search"
    /\ IF SearchRaises(df, search_query, selected_genre, selected_country)
       THEN /\ Raise("str.contains")
            /\ UNCHANGED <<detailed_df, rendered>>
       ELSE /\ detailed_df' = Where(filtered_df,
                   {i \in DOMAIN filtered_df.rows :
                       SearchMask(filtered_df.rows[i], search_query,
                                  selected_genre, selected_country)})
            /\ Goto("detail_stats", {})
    /\ UNCHANGED <<envVars, loadResult, df, sidebarVars, filtered_df,
                   sliceVars, tallyVars, detailVars, helperVars>>

\* lines 559-604: the four statistics (the mean is guarded by
\* detailed_df.empty), the cards and the footer
DetailStats ==
    /\ pc = "detail_stats"
    /\ Goto("done", {"detail_stats"})
    /\ UNCHANGED <<envVars, loadResult, df, sidebarVars, filtered_df,
                   sliceVars, tallyVars, detailVars, detailed_df, helperVars>>

\* helpers.py lines 5-27: clean_netflix_data(df), called by nothing in
\* app.py, on the frame pd.read_csv gives for the file
CleanNetflixData ==
    /\ IsNa(df_clean)
    /\ file.state = "ok"
    /\ df_clean' = Some(clean_netflix_data(file.rows))
    /\ UNCHANGED <<envVars, pc, loadResult, df, sidebarVars, filtered_df,
                   sliceVars, tallyVars, detailVars, detailed_df, rendered,
                   errors, series, top_n, top_items>>

\* helpers.py lines 29-40: extract_top_items(series, top_n, sep=',')
ExtractTopItems ==
    /\ IsNa(top_items)
    /\ top_n > 0
    /\ \E vc \in ValueCounts(HelperItems(series, ",")) :
          top_items' = Some(Head_n(vc, top_n))
    /\ UNCHANGED <<envVars, pc, loadResult, df, sidebarVars, filtered_df,
                   sliceVars, tallyVars, detailVars, detailed_df, rendered,
                   errors, series, top_n, df_clean>>

Next ==
    \/ ModifyFile
    \/ StartRun
    \/ LoadData
    \/ CheckEmpty
    \/ Sidebar
    \/ ApplyFilters
    \/ Metrics
    \/ Overview
    \/ Decades
    \/ Duration
    \/ Genres
    \/ GenreTrends
    \/ People
    \/ Countries
    \/ CountryRating
    \/ CountryType
    \/ Trends
    \/ DetailWidgets
    \/ DetailSearch
    \/ DetailStats

Spec == Init /\ [][Next]_vars

-----------------------------------------------------------------------------
(* The first run of a session alone, on inputs drawn more widely *)

\* sequences of length 1..n over a set
SeqsUpTo(S, n) == UNION {[1..k -> S] : k \in 1..n}

ReadableFile(c) == [state |-> "ok", rows |-> c, version |-> 0]

FirstRun == runs = 0 /\ StartRun

\* Catalogs for the filter engine: every combination of type, rating and
\* release year (none, below the default range, at its upper end) in a row,
\* and the catalog of the example (release years 2005, 2015, 2021 and none)
FilterRows ==
    {Row(ty, Some(<<"a">>), NaN, NaN, Some(<<"u">>), ye, ra, Some(<<"d">>)) :
        ty \in {"Movie", "TV Show"},
        ye \in {NaN, Some(2005), Some(2021)},
        ra \in {Some("PG"), NaN}}

ExampleCatalog ==
    [i \in 1..4 |->
        Row("Movie", Some(<<"a">>), NaN, NaN, Some(<<"u">>),
            <<Some(2005), Some(2015), Some(2021), NaN>>[i],
            Some("PG"), Some(<<"d">>))]

FilterCatalogs == SeqsUpTo(FilterRows, MaxRows) \cup {ExampleCatalog}

\* the sidebar selections a user can have made on a catalog (an untouched
\* multiselect holds all its options)
ProperSubsets(S) == (SUBSET S) \ {S}

SidebarUis(catalog) ==
    {[DefaultUi EXCEPT !.types = t, !.ratings = r, !.years = y] :
        t \in {NaN} \cup {Some(x) : x \in ProperSubsets(Unique(catalog, "type"))},
        r \in {NaN} \cup {Some(x) : x \in ProperSubsets(Unique(catalog, "rating"))},
        y \in {NaN} \cup
              (IF Years(catalog) = {} THEN {}
               ELSE {Some(p) : p \in {q \in YearPicks \X YearPicks :
                                         /\ SliderMin(catalog) <= q[1]
                                         /\ q[1] <= q[2]
                                         /\ q[2] <= SliderMax(catalog)}})}

InitFilter ==
    /\ file \in {ReadableFile(c) : c \in FilterCatalogs}
    /\ ui \in SidebarUis(ReadCsv(file))
    /\ cache = NoCache
    /\ nparse = 0
    /\ lastParsed = NaN
    /\ runs = 0
    /\ pc = "idle"
    /\ RunStart
    /\ HelperIdle

NextFilter ==
    \/ FirstRun
    \/ LoadData
    \/ CheckEmpty
    \/ Sidebar
    \/ ApplyFilters

SpecFilter == InitFilter /\ [][NextFilter]_vars

\* Catalogs for the tallies: rows that differ in their multi-valued cells
TallyRow(li, di, ca) ==
    Row("Movie", Some(<<"a">>), di, ca, Some(<<"u">>), Some(2015), Some("PG"), li)

TallyRows ==
    { TallyRow(Some(<<"d", ",", " ", "a">>), NaN, Some(<<"b">>)),
      TallyRow(Some(<<"a">>), Some(<<"b">>), Some(<<"b">>)),
      TallyRow(Some(<<"d", ",", ",", "a">>), Some(<<"b", ",", " ", "d">>), NaN),
      TallyRow(NaN, Some(<<"d">>), Some(<<"b">>)),
      TallyRow(Some(<<"a", ",", " ">>), NaN, Some(<<"b", ",", "a">>)),
      TallyRow(Some(<<" ", "a", ",", "d">>), Some(<<"d">>), NaN) }

TallyCatalogs == SeqsUpTo(TallyRows, MaxCells)

InitTally ==
    /\ file \in {ReadableFile(c) : c \in TallyCatalogs}
    /\ series = [i \in DOMAIN file.rows |-> file.rows[i].listed_in]
    /\ top_n \in 1..MaxTopN
    /\ top_items = NaN
    /\ df_clean = NaN
    /\ ui = DefaultUi
    /\ cache = NoCache
    /\ nparse = 0
    /\ lastParsed = NaN
    /\ runs = 0
    /\ pc = "idle"
    /\ RunStart

NextTally ==
    \/ ExtractTopItems
    \/ FirstRun
    \/ LoadData
    \/ CheckEmpty
    \/ Sidebar
    \/ ApplyFilters
    \/ Metrics
    \/ Overview
    \/ Decades
    \/ Duration
    \/ Genres
    \/ GenreTrends
    \/ People

SpecTally == InitTally /\ [][NextTally]_vars

\* Catalogs for the dates and durations: lines that differ in type, date_added,
\* release_year and duration, well-formed, malformed or empty.  Every duration
\* text holds a letter (a column of bare numbers is not drawn).
DatedRow(ty, da, ye, du) ==
    [Row(ty, Some(<<"a">>), NaN, NaN, Some(<<"u">>), NaN, Some("PG"),
         Some(<<"d">>))
        EXCEPT !.date_added = da, !.release_year = ye, !.duration = du]

Year20x5 == <<"2", "0", "x", "5">>
Season2 == <<"S", "e", "a", "s", "o", "n", " ", "2">>
MinAlone == <<"m", "i", "n">>

DatedRows ==
    { DatedRow("Movie", DateText("September", 25, 2021),
               Some(Digits(2015)), Some(Min90)),
      DatedRow("TV Show", DateText("March", 1, 2020),
               Some(Digits(2021)), Some(Seasons3)),
      DatedRow("Movie", DateText("September", 3, 2020),
               Some(Digits(2015)), NaN),
      DatedRow("TV Show",
               Some([month |-> "Septembr", day |-> Digits(25),
                     year |-> Digits(2021)]),
               Some(Digits(2015)), Some(Season2)),
      DatedRow("Movie", DateText("February", 30, 2020),
               Some(Year20x5), Some(Min90)),
      DatedRow("Movie", NaN, Some(Year20x5), Some(MinAlone)),
      DatedRow("TV Show", DateText("February", 29, 2020), NaN,
               Some(Seasons3)),
      DatedRow("Movie",
               Some([month |-> "March", day |-> <<"x">>,
                     year |-> Digits(2020)]),
               Some(Digits(2021)), Some(Season2)) }

DatedCatalogs == SeqsUpTo(DatedRows, MaxDated)

InitDates ==
    /\ file \in {ReadableFile(c) : c \in DatedCatalogs}
    /\ ui \in {DefaultUi} \cup
             {[DefaultUi EXCEPT !.types = Some(t)] :
                 t \in ProperSubsets(Unique(ReadCsv(file), "type"))}
    /\ cache = NoCache
    /\ nparse = 0
    /\ lastParsed = NaN
    /\ runs = 0
    /\ pc = "idle"
    /\ RunStart
    /\ HelperIdle

NextDates ==
    \/ CleanNetflixData
    \/ FirstRun
    \/ LoadData
    \/ CheckEmpty
    \/ Sidebar
    \/ ApplyFilters
    \/ Metrics
    \/ Overview
    \/ Decades
    \/ Duration
    \/ Genres
    \/ GenreTrends
    \/ People
    \/ Countries
    \/ CountryRating
    \/ CountryType
    \/ Trends

SpecDates == InitDates /\ [][NextDates]_vars

-----------------------------------------------------------------------------
(* The filter engine *)

\* the release year of a row lies in [lo, hi], both ends included
YearWithin(r, lo, hi) ==
    /\ ~IsNa(r.release_year)
    /\ lo <= Val(r.release_year)
    /\ Val(r.release_year) <= hi

\* C1: once the filter has been applied, the view holds exactly the catalog
\* rows whose type is selected, whose rating is selected and whose release
\* year lies in the inclusive range; a row without release year is in no
\* view, an empty selection of types or of ratings gives the empty view, and
\* the rows come in catalog order with the catalog's columns.
C1_FilterExact ==
    pc = "metrics" =>
        /\ \A i \in DOMAIN df.rows :
              (df.rows[i] \in Range(filtered_df.rows)) <=>
                  /\ df.rows[i].type \in content_type
                  /\ df.rows[i].rating \in ratings
                  /\ YearWithin(df.rows[i], year_range[1], year_range[2])
        /\ Range(filtered_df.rows) \subseteq Range(df.rows)
        /\ \A i, j \in DOMAIN filtered_df.rows :
              i < j => filtered_df.rows[i].idx < filtered_df.rows[j].idx
        /\ \A i \in DOMAIN filtered_df.rows :
              ~IsNa(filtered_df.rows[i].release_year)
        /\ (content_type = {} \/ ratings = {}) => filtered_df.rows = <<>>
        /\ filtered_df.cols = df.cols

\* the example: the range [2010, 2021] on the catalog with release years
\* 2005, 2015, 2021 and none keeps the rows of 2015 and 2021
C1_Witness ==
    /\ pc = "metrics"
    /\ file.rows = ExampleCatalog
    /\ year_range = <<2010, 2021>>
    /\ content_type = {"Movie"}
    /\ Index(filtered_df) = {2, 3}

-----------------------------------------------------------------------------
(* The loader *)

\* the body of load_data ran in this run and found the file missing or
\* unreadable
FailedLoad ==
    /\ loadResult.from = "file"
    /\ loadResult.state \in {"absent", "unreadable"}

\* C2: when the file is absent or unreadable, load_data returns the no-data
\* signal (the empty frame), an error is shown, and the run halts with nothing
\* rendered.
C2_FailedLoadHalts ==
    FailedLoad =>
        /\ loadResult.outcome = "returned"
        /\ df = EmptyFrame
        /\ errors # {}
        /\ rendered = {}
        /\ pc \in {"check", "stopped"}

\* C3: the body of load_data is executed exactly when the file differs from
\* the file it last read, and the catalog a run works on is the one the
\* current file gives.
C3_ReparseIffChanged ==
    (pc = "check" /\ loadResult.outcome = "returned") =>
        /\ (loadResult.from = "file") <=> loadResult.changed
        /\ file.state # "unreadable" => df = load_data(file).value

-----------------------------------------------------------------------------
(* The run as a whole *)

\* C4: a run whose selection matches no row of a non-empty catalog does not
\* end in an exception.
C4_EmptyViewCompletes ==
    ("metrics" \in rendered /\ ~IsEmpty(df) /\ filtered_df.rows = <<>>)
        => pc # "crashed"

\* C5: from the return of load_data to the end of the run, whatever the
\* selections of this and of earlier runs, the catalog is the frame that
\* load_data produced from the file it read: same rows, same columns, same
\* cells.
C5_CatalogImmutable ==
    loadResult.outcome = "returned" =>
        /\ ~IsNa(lastParsed)
        /\ df = load_data(Val(lastParsed)).value
        /\ df = cache.value

\* a second run, after a change of selection, has derived and modified the
\* view, the sub-slices and the detail view
C5_Witness ==
    /\ pc = "done"
    /\ runs = 2
    /\ ui # DefaultUi
    /\ "decade" \in filtered_df.cols
    /\ movies_df.rows # <<>>
    /\ detailed_df.rows # <<>>
    /\ df.rows # <<>>

\* the sections that read the filtered view
ViewReaders == {"metrics", "overview", "decades", "duration", "genres",
                "genre_trends", "people", "countries", "country_rating",
                "country_type", "trends", "detail_widgets", "detail_search"}

\* C6: wherever a section reads the filtered view, the view has the columns
\* of the catalog and no other.
C6_ViewColumnsUnchanged ==
    pc \in ViewReaders => filtered_df.cols = df.cols

-----------------------------------------------------------------------------
(* The frequency tables *)

\* the segments of the present cells of a column: <<i, k>> is segment k of
\* cell i, split on the comma
Segments(cells) ==
    UNION {{<<i, k>> : k \in DOMAIN Split(Val(cells[i]), ",")} :
              i \in {j \in DOMAIN cells : ~IsNa(cells[j])}}

\* the trimmed token of a segment
TokenAt(cells, p) == Strip(Split(Val(cells[p[1]]), ",")[p[2]])

AllTokens(cells) == {TokenAt(cells, p) : p \in Segments(cells)}

Occurrences(cells, t) ==
    Cardinality({p \in Segments(cells) : TokenAt(cells, p) = t})

\* token t is met before token u when the cells are read in order
MetBefore(cells, t, u) ==
    \E p \in Segments(cells) :
        /\ TokenAt(cells, p) = t
        /\ \A q \in Segments(cells) :
              TokenAt(cells, q) = u =>
                  (p[1] < q[1] \/ (p[1] = q[1] /\ p[2] < q[2]))

\* table is the top n of the tokens of cells: right counts, by count
\* descending, min(n, number of distinct tokens) entries, nothing left out
\* that occurs more often than something kept
IsTopTable(table, cells, n) ==
    /\ \A i, j \in DOMAIN table : i # j => table[i][1] # table[j][1]
    /\ \A i \in DOMAIN table :
          /\ table[i][1] \in AllTokens(cells)
          /\ table[i][2] = Occurrences(cells, table[i][1])
    /\ \A i, j \in DOMAIN table : i < j => table[i][2] >= table[j][2]
    /\ Len(table) = Min(n, Cardinality(AllTokens(cells)))
    /\ \A t \in AllTokens(cells) \ Tokens(table) :
          \A i \in DOMAIN table : Occurrences(cells, t) <= table[i][2]

\* entries with equal counts come in the order their tokens were first met
TiesInEncounterOrder(table, cells) ==
    \A i, j \in DOMAIN table :
        (i < j /\ table[i][2] = table[j][2])
            => MetBefore(cells, table[i][1], table[j][1])

GenresDone == "fig_genres" \in rendered
PeopleDone == "fig_cast" \in rendered

\* C7 (as amended): the table of extract_top_items and the genre, director
\* and cast tables of the dashboard are top-n tables of their column; the
\* order among tokens of equal count is not determined.
C7_TopTables ==
    /\ ~IsNa(top_items) => IsTopTable(Val(top_items), series, top_n)
    /\ GenresDone =>
          IsTopTable(genre_counts, Column(filtered_df, "listed_in"), TopGenres)
    /\ PeopleDone =>
          /\ IsTopTable(director_counts, Column(filtered_df, "director"),
                        TopPeople)
          /\ IsTopTable(cast_counts, Column(filtered_df, "cast"), TopPeople)

\* C7 (as claimed): moreover tokens of equal count appear in the order in
\* which they were first met.
C7_TopTablesStable ==
    /\ C7_TopTables
    /\ ~IsNa(top_items) => TiesInEncounterOrder(Val(top_items), series)
    /\ GenresDone =>
          TiesInEncounterOrder(genre_counts, Column(filtered_df, "listed_in"))
    /\ PeopleDone =>
          /\ TiesInEncounterOrder(director_counts,
                                  Column(filtered_df, "director"))
          /\ TiesInEncounterOrder(cast_counts, Column(filtered_df, "cast"))

\* the helper has cut a table with a token that occurs twice down to top_n
\* entries, and the dashboard has tallied genres with equal counts, directors
\* and cast
C7_Witness ==
    /\ ~IsNa(top_items)
    /\ Len(Val(top_items)) = top_n
    /\ top_n < Cardinality(AllTokens(series))
    /\ Val(top_items)[1][2] = 2
    /\ PeopleDone
    /\ Len(genre_counts) >= 3
    /\ genre_counts[2][2] = genre_counts[3][2]
    /\ director_counts # <<>>
    /\ cast_counts # <<>>

\* C8: no frequency table holds the empty token.
C8_NoEmptyToken ==
    <<>> \notin Tokens(genre_counts) \cup Tokens(director_counts)
                \cup Tokens(cast_counts) \cup Tokens(country_counts)

-----------------------------------------------------------------------------
(* The detail search *)

\* text q occurs in the cell, letter case ignored or not
CellHas(cell, q, fold) == ~IsNa(cell) /\ IsSubstring(q, Val(cell), fold)

\* the rows of the view that the query keeps, as the claim has it
QueryKeeps(r, q) ==
    \/ q = <<>>
    \/ CellHas(r.title, q, TRUE)
    \/ CellHas(r.director, q, TRUE)
    \/ CellHas(r.cast, q, TRUE)

\* C9: with both selections at "All", the detail view holds exactly the rows
\* of the view in which title, director or cast contains the query as a
\* substring, letter case ignored; an empty query keeps every row.
C9_QuerySubstring ==
    (pc = "detail_stats" /\ selected_genre = Some(All)
                         /\ selected_country = Some(All)) =>
        Index(detailed_df) =
            {r.idx : r \in {x \in Range(filtered_df.rows) :
                                QueryKeeps(x, search_query)}}

\* C10: the detail view holds exactly the rows that pass the query filter
\* and whose listed_in contains the selected genre and whose country contains
\* the selected country, as substrings, "All" standing for no condition.
C10_SelectionsConjoined ==
    pc = "detail_stats" =>
        LET keep(r) ==
                /\ SearchMask(r, search_query, Some(All), Some(All))
                /\ \/ selected_genre = Some(All)
                   \/ CellHas(r.listed_in, Val(selected_genre), FALSE)
                /\ \/ selected_country = Some(All)
                   \/ CellHas(r.country, Val(selected_country), FALSE)
        IN  /\ Index(detailed_df) =
                   {r.idx : r \in {x \in Range(filtered_df.rows) : keep(x)}}
            /\ Index(detailed_df) \subseteq Index(filtered_df)

-----------------------------------------------------------------------------
(* The date columns *)

\* year_added and month_added of a row are the calendar year and month of its
\* date_added, and absent when it is absent
DerivedFromDate(r) ==
    IF IsNa(r.date_added)
    THEN IsNa(r.year_added) /\ IsNa(r.month_added)
    ELSE /\ r.year_added = Some(Val(r.date_added).year)
         /\ r.month_added = Some(Val(r.date_added).month)
         /\ Val(r.month_added) \in 1..12

\* the frames of the pipeline that carry the date columns
DatedFrames ==
    {df, filtered_df, movies_df, tv_shows_df}
        \cup (IF IsNa(df_clean) THEN {} ELSE {Val(df_clean)})

\* C11: in the catalog load_data returns, in the frame clean_netflix_data
\* returns and in every frame a later step derives, each row's year_added and
\* month_added are the year and month of its date_added, absent when the date
\* is absent; and the catalog's dates stay those the load produced.
C11_DateColumnsDerived ==
    /\ \A f \in DatedFrames : \A i \in DOMAIN f.rows : DerivedFromDate(f.rows[i])
    /\ (loadResult.outcome = "returned" /\ loadResult.state = "ok") =>
          \A i \in DOMAIN df.rows :
              /\ df.rows[i].date_added = ToDatetime(file.rows[i].date_added)
              /\ df.rows[i].year_added = CleanRows(file.rows)[i].year_added
              /\ df.rows[i].month_added = CleanRows(file.rows)[i].month_added

\* a run has gone through the trend charts on a catalog with a dated row of
\* September 2021 and a row whose date is absent, and the helper has cleaned
\* the same file
C11_Witness ==
    /\ pc = "detail_widgets"
    /\ ~IsNa(df_clean)
    /\ \E i \in DOMAIN df.rows :
          /\ df.rows[i].year_added = Some(2021)
          /\ df.rows[i].month_added = Some(9)
    /\ \E i \in DOMAIN df.rows : IsNa(df.rows[i].date_added)
    /\ \E i \in DOMAIN Val(df_clean).rows :
          /\ Val(df_clean).rows[i].year_added = Some(2021)
          /\ Val(df_clean).rows[i].month_added = Some(9)

\* the text of a release_year field is no number
MalformedYear(cell) == ~IsNa(cell) /\ IsNa(ToNumeric(cell))

\* C12: the load of a readable file returns a catalog with as many rows as
\* the file, a malformed release_year or date_added absent and the other
\* fields of the row as they are in the file; and when no release_year field
\* of the file is empty, the run does not end in the exception of the year
\* slider, whose bounds are computed from the parsed years.
C12_MalformedContained ==
    (loadResult.from = "file" /\ loadResult.state = "ok") =>
        /\ loadResult.outcome = "returned"
        /\ Len(df.rows) = Len(file.rows)
        /\ \A i \in DOMAIN df.rows :
              /\ MalformedYear(file.rows[i].release_year)
                    => IsNa(df.rows[i].release_year)
              /\ (~IsNa(file.rows[i].date_added)
                     /\ IsNa(ToDatetime(file.rows[i].date_added)))
                    => IsNa(df.rows[i].date_added)
              /\ df.rows[i].type = file.rows[i].type
              /\ df.rows[i].title = file.rows[i].title
              /\ df.rows[i].listed_in = file.rows[i].listed_in
        /\ (\A i \in DOMAIN file.rows : ~IsNa(file.rows[i].release_year))
              => "int(NaN)" \notin errors

-----------------------------------------------------------------------------
(* The month x year table *)

\* the rows of the view added in month m of year y
AddedIn(m, y) ==
    {i \in DOMAIN filtered_df.rows :
        /\ filtered_df.rows[i].month_added = Some(m)
        /\ filtered_df.rows[i].year_added = Some(y)}

AddedInMonth(m) ==
    {i \in DOMAIN filtered_df.rows : filtered_df.rows[i].month_added = Some(m)}

TrendsDone == "fig_heatmap" \in rendered

\* C13: the month x year table has a cell for every month of its index and
\* every year of its columns, holding the number of rows of the view added in
\* that month of that year, 0 when there is none; the monthly table has an
\* entry for each of the 12 months, 0 for a month with no row.
C13_ZeroCells ==
    TrendsDone =>
        /\ DOMAIN heatmap_pivot.cells
              = heatmap_pivot.index \X heatmap_pivot.columns
        /\ heatmap_pivot.index = {m \in 1..12 : AddedInMonth(m) # {}}
        /\ \A y \in heatmap_pivot.columns :
              \E m \in heatmap_pivot.index : AddedIn(m, y) # {}
        /\ \A p \in heatmap_pivot.index \X heatmap_pivot.columns :
              heatmap_pivot.cells[p] = Some(Cardinality(AddedIn(p[1], p[2])))
        /\ DOMAIN monthly_data = 1..12
        /\ \A m \in 1..12 : monthly_data[m] = Cardinality(AddedInMonth(m))

\* the table of a view has a cell holding 0 and a cell holding a count, and
\* the monthly table a month with 0 and a month with rows
C13_Witness ==
    /\ TrendsDone
    /\ \E p \in DOMAIN heatmap_pivot.cells : heatmap_pivot.cells[p] = Some(0)
    /\ \E p \in DOMAIN heatmap_pivot.cells : heatmap_pivot.cells[p] = Some(1)
    /\ \E m \in 1..12 : monthly_data[m] = 0
    /\ \E m \in 1..12 : monthly_data[m] >= 1

-----------------------------------------------------------------------------
(* The durations *)

\* the integer a text begins with, if it begins with one
LeadingInt(text) ==
    IF text = <<>> \/ ~IsDigit(text[1]) THEN NaN
    ELSE LET j == CHOOSE k \in DOMAIN text :
                      /\ \A q \in 1..k : IsDigit(text[q])
                      /\ (k = Len(text) \/ ~IsDigit(text[k + 1]))
         IN  Some(ParseInt(SubSeq(text, 1, j)))

DurationDone == "duration_min" \in movies_df.cols

\* C14: once the durations are parsed, the movie slice holds the movies of
\* the view and the TV slice its TV shows, none dropped, and each row's parsed
\* value is the integer its duration text begins with, absent when the text
\* begins with none.
C14_LeadingInteger ==
    DurationDone =>
        /\ Index(movies_df) = {filtered_df.rows[i].idx : i \in IsMovie(filtered_df)}
        /\ Index(tv_shows_df)
              = {filtered_df.rows[i].idx : i \in IsTvShow(filtered_df)}
        /\ \A i \in DOMAIN movies_df.rows :
              movies_df.rows[i].duration_min
                  = LeadingInt(Val(movies_df.rows[i].duration))
        /\ \A i \in DOMAIN tv_shows_df.rows :
              tv_shows_df.rows[i].seasons
                  = LeadingInt(Val(tv_shows_df.rows[i].duration))

====
